---- MODULE Spec2Model ----
(***************************************************************************)
(* order_sql_commands (src/database_tools.py): the dependency-aware        *)
(* reorderer of CREATE TABLE statements.                                   *)
(*                                                                         *)
(* A text is a sequence of lexical tokens; the string it stands for is the *)
(* concatenation of its tokens.  A word token consists of \w characters    *)
(* only, and adjacent word tokens form one \w+ run, as they do in the      *)
(* string.  The keyword CREATE TABLE is the word CREATE, one blank and the *)
(* word TABLE; REFERENCES is one word.  No token is a proper part of a     *)
(* keyword, so a keyword is matched exactly where its tokens stand.  A     *)
(* name is the sequence of the word tokens of its run.                     *)
(***************************************************************************)
EXTENDS Naturals, Integers, Sequences, FiniteSets, TLC

(***************************************************************************)
(* Bounds of the checked inputs.                                           *)
(***************************************************************************)
MaxStmts == 3
MaxRefs == 3
TextStmts == 2
ConcStmts == 2
ConcRefs == 2

Calls == {1, 2}

(***************************************************************************)
(* Lexical classes.                                                        *)
(***************************************************************************)
CreateTokens == {"CREATE", "create"}
TableTokens == {"TABLE", "table"}
ReferencesTokens == {"REFERENCES", "references"}
Whitespace == {" ", "\n"}
\* the double quote; the patterns treat the grave accent in the same way
Quotes == {"\""}
WordTokens ==
    {"a", "b", "c", "d", "x", "SELECT", "1"} \cup ReferencesTokens \cup CreateTokens \cup TableTokens

\* str.upper() on one token
Upper(t) ==
    CASE t = "create" -> "CREATE"
      [] t = "table" -> "TABLE"
      [] t = "references" -> "REFERENCES"
      [] t = "a" -> "A"
      [] t = "b" -> "B"
      [] t = "c" -> "C"
      [] t = "d" -> "D"
      [] t = "x" -> "X"
      [] OTHER -> t

\* the success marker of line 183 and the warning text of line 180, without
\* the leading pictograph bytes of the source
SuccessMarker == "# DDL Commands sorted by FOREIGN KEY dependency:"
WarningHead == "# WARNING: Not all tables could be topologically sorted (possible circular dependencies: "
WarningTail == "). Using original order."

Min(S) == CHOOSE m \in S : \A n \in S : m <= n

\* the safeguard of line 129 left out
ContainsCreateTableAlways(s) == TRUE

\* the keyword CREATE TABLE, in any case, stands at position i: the word
\* CREATE, one blank, the word TABLE
KeywordAt(s, i) ==
    /\ i + 2 <= Len(s)
    /\ Upper(s[i]) = "CREATE"
    /\ s[i + 1] = " "
    /\ Upper(s[i + 2]) = "TABLE"

\* "CREATE TABLE" in sql_ddl_code.upper()
ContainsCreateTable(s) == \E i \in 1..Len(s) : KeywordAt(s, i)

\* \s* from position i: the first position that is not whitespace
RECURSIVE SkipWs(_, _)
SkipWs(s, i) == IF i <= Len(s) /\ s[i] \in Whitespace THEN SkipWs(s, i + 1) ELSE i

\* \w+ from position i: the first position after the word run
RECURSIVE SkipWord(_, _)
SkipWord(s, i) == IF i <= Len(s) /\ s[i] \in WordTokens THEN SkipWord(s, i + 1) ELSE i

\* the optional quote of both patterns, from position i
SkipQuote(s, i) == IF i <= Len(s) /\ s[i] \in Quotes THEN i + 1 ELSE i

\* str.strip()
RECURSIVE Strip(_)
Strip(s) ==
    IF s = <<>> THEN s
    ELSE IF Head(s) \in Whitespace THEN Strip(Tail(s))
    ELSE IF s[Len(s)] \in Whitespace THEN Strip(SubSeq(s, 1, Len(s) - 1))
    ELSE s

\* str.split on the terminator
RECURSIVE Split(_)
Split(s) ==
    LET P == {i \in 1..Len(s) : s[i] = ";"}
    IN IF P = {} THEN <<s>>
       ELSE <<SubSeq(s, 1, Min(P) - 1)>> \o Split(SubSeq(s, Min(P) + 1, Len(s)))

\* statements = [s.strip() for s in sql_ddl_code.split(';') if s.strip()]
RECURSIVE StripNonEmpty(_)
StripNonEmpty(parts) ==
    IF parts = <<>> THEN <<>>
    ELSE IF Strip(Head(parts)) = <<>> THEN StripNonEmpty(Tail(parts))
    ELSE <<Strip(Head(parts))>> \o StripNonEmpty(Tail(parts))

Statements(s) == StripNonEmpty(Split(s))

\* the header pattern of line 139 (keyword, \s+, optional quote, \w+,
\* optional quote, \s*, opening parenthesis) matched at position i:
\* group(1), or <<>> when the pattern does not match there
HeaderAt(s, i) ==
    LET w == SkipWs(s, i + 3)
        q == SkipQuote(s, w)
        e == SkipWord(s, q)
        p == SkipWs(s, SkipQuote(s, e))
    IN IF /\ KeywordAt(s, i)
          /\ w > i + 3
          /\ e > q
          /\ p <= Len(s)
          /\ s[p] = "("
       THEN SubSeq(s, q, e - 1)
       ELSE <<>>

\* re.search(...).group(1): the leftmost match, <<>> for None
TableMatch(statement) ==
    LET P == {i \in 1..Len(statement) : HeaderAt(statement, i) # <<>>}
    IN IF P = {} THEN <<>> ELSE HeaderAt(statement, Min(P))

\* the reference pattern of line 147 (keyword, \s+, optional quote, \w+,
\* optional quote, \s*, then an opening parenthesis or a whitespace) at
\* i: group(1) and the position after the match, name <<>> when no match
ReferenceAt(s, i) ==
    LET w == SkipWs(s, i + 1)
        q == SkipQuote(s, w)
        e == SkipWord(s, q)
        r == SkipQuote(s, e)
        p == SkipWs(s, r)
    IN IF /\ Upper(s[i]) = "REFERENCES"
          /\ w > i + 1
          /\ e > q
          /\ \/ p <= Len(s) /\ s[p] = "("
             \/ p > r
       THEN [name |-> SubSeq(s, q, e - 1),
             end |-> IF p <= Len(s) /\ s[p] = "(" THEN p + 1 ELSE p]
       ELSE [name |-> <<>>, end |-> i]

\* re.findall(...) from position i: the non-overlapping matches, left to right
RECURSIVE FkMatchesFrom(_, _)
FkMatchesFrom(s, i) ==
    IF i > Len(s) THEN <<>>
    ELSE LET m == ReferenceAt(s, i)
         IN IF m.name # <<>> THEN <<m.name>> \o FkMatchesFrom(s, m.end)
            ELSE FkMatchesFrom(s, i + 1)

FkMatches(statement) == FkMatchesFrom(statement, 1)

\* the table map that keeps the first statement of a name
RECURSIVE BuildTableMapFirstWins(_, _)
BuildTableMapFirstWins(stmts, tm) ==
    IF stmts = <<>> THEN tm
    ELSE LET n == TableMatch(Head(stmts))
         IN IF n = <<>> THEN BuildTableMapFirstWins(Tail(stmts), tm)
            ELSE BuildTableMapFirstWins(Tail(stmts), tm @@ (n :> Append(Head(stmts), ";")))

\* lines 138-144: the table map after the statements, later headers of a
\* name overwriting earlier ones
RECURSIVE BuildTableMap(_, _)
BuildTableMap(stmts, tm) ==
    IF stmts = <<>> THEN tm
    ELSE LET n == TableMatch(Head(stmts))
         IN IF n = <<>> THEN BuildTableMap(Tail(stmts), tm)
            ELSE BuildTableMap(Tail(stmts), (n :> Append(Head(stmts), ";")) @@ tm)

\* lines 138-150: the dependency lists after the statements
RECURSIVE BuildDependencies(_, _)
BuildDependencies(stmts, deps) ==
    IF stmts = <<>> THEN deps
    ELSE LET n == TableMatch(Head(stmts))
         IN IF n = <<>> THEN BuildDependencies(Tail(stmts), deps)
            ELSE BuildDependencies(Tail(stmts), (n :> FkMatches(Head(stmts))) @@ deps)

EmptyMap == [n \in {} |-> <<>>]

Range(q) == {q[i] : i \in 1..Len(q)}

\* the orders in which iterating a set can deliver its elements
Orders(S) == {f \in [1..Cardinality(S) -> S] : \A e \in S : \E i \in 1..Cardinality(S) : f[i] = e}

\* every table seeded as ready
InitiallyReadyAll(deps, all_tables, t) == TRUE

\* the readiness test that does not count a reference of a table to itself
InitiallyReadyIgnoringSelf(deps, all_tables, t) ==
    deps[t] = <<>> \/ \A i \in 1..Len(deps[t]) : deps[t][i] \notin all_tables \ {t}

\* line 158: the readiness test of the seeding comprehension
InitiallyReady(deps, all_tables, t) ==
    deps[t] = <<>> \/ \A i \in 1..Len(deps[t]) : deps[t][i] \notin all_tables

\* list.remove(x): drops the first occurrence
RemoveFirst(q, e) ==
    LET i == Min({k \in 1..Len(q) : q[k] = e})
    IN SubSeq(q, 1, i - 1) \o SubSeq(q, i + 1, Len(q))

\* the scan with a dependent enqueued at the first removal, whatever is
\* left of its list
RECURSIVE ScanDependentsEager(_, _, _)
ScanDependentsEager(scan, current_table, st) ==
    IF scan = <<>> THEN st
    ELSE LET dependent_table == Head(scan)
             hit == current_table \in Range(st.deps[dependent_table])
             d == IF hit THEN RemoveFirst(st.deps[dependent_table], current_table)
                  ELSE st.deps[dependent_table]
             enq == hit /\ dependent_table \notin Range(st.ready)
         IN ScanDependentsEager(Tail(scan), current_table,
                [deps |-> [st.deps EXCEPT ![dependent_table] = d],
                 ready |-> IF enq THEN Append(st.ready, dependent_table) ELSE st.ready])

\* lines 167-173: the scan of the not-yet-ordered tables, in the order scan,
\* after current_table was taken; st is [deps, ready]
RECURSIVE ScanDependents(_, _, _)
ScanDependents(scan, current_table, st) ==
    IF scan = <<>> THEN st
    ELSE LET dependent_table == Head(scan)
             hit == current_table \in Range(st.deps[dependent_table])
             d == IF hit THEN RemoveFirst(st.deps[dependent_table], current_table)
                  ELSE st.deps[dependent_table]
             enq == hit /\ d = <<>> /\ dependent_table \notin Range(st.ready)
         IN ScanDependents(Tail(scan), current_table,
                [deps |-> [st.deps EXCEPT ![dependent_table] = d],
                 ready |-> IF enq THEN Append(st.ready, dependent_table) ELSE st.ready])

\* "sep".join(parts)
RECURSIVE Join(_, _)
Join(parts, sep) ==
    IF parts = <<>> THEN <<>>
    ELSE IF Len(parts) = 1 THEN Head(parts)
    ELSE Head(parts) \o sep \o Join(Tail(parts), sep)

\* str.replace of the terminator by the terminator and two newlines
RECURSIVE ReplaceTerminators(_)
ReplaceTerminators(s) ==
    IF s = <<>> THEN <<>>
    ELSE IF Head(s) = ";" THEN <<";", "\n", "\n">> \o ReplaceTerminators(Tail(s))
    ELSE <<Head(s)>> \o ReplaceTerminators(Tail(s))

\* lines 183-192: the text of the success form
OrderedOutput(ordered, tm) ==
    LET output_parts == <<<<SuccessMarker, "\n">>>> \o [i \in 1..Len(ordered) |-> tm[ordered[i]]]
    IN Strip(ReplaceTerminators(Join(output_parts, <<"\n">>)))

\* the warning text under the marker of the success form
WarningOutputMarked(missing, code) ==
    <<SuccessMarker>> \o Join(missing, <<", ">>) \o <<WarningTail, "\n">> \o code

\* line 180: the text of the warning form, the missing tables in the order
\* the set delivers them
WarningOutput(missing, code) ==
    <<WarningHead>> \o Join(missing, <<", ">>) \o <<WarningTail, "\n">> \o code

VARIABLES sql_ddl_code, pc, table_map, dependencies, ordered_tables,
          ready_to_process, result

vars == <<sql_ddl_code, pc, table_map, dependencies, ordered_tables,
          ready_to_process, result>>

AllTables(c) == DOMAIN table_map[c]

\* lines 129-130
PassThrough(c) ==
    /\ pc[c] = "start"
    /\ ~ContainsCreateTable(sql_ddl_code[c])
    /\ result' = [result EXCEPT ![c] = sql_ddl_code[c]]
    /\ pc' = [pc EXCEPT ![c] = "done"]
    /\ UNCHANGED <<sql_ddl_code, table_map, dependencies, ordered_tables, ready_to_process>>

\* lines 129-150
Parse(c) ==
    /\ pc[c] = "start"
    /\ ContainsCreateTable(sql_ddl_code[c])
    /\ table_map' = [table_map EXCEPT ![c] = BuildTableMap(Statements(sql_ddl_code[c]), EmptyMap)]
    /\ dependencies' = [dependencies EXCEPT ![c] = BuildDependencies(Statements(sql_ddl_code[c]), EmptyMap)]
    /\ pc' = [pc EXCEPT ![c] = "seed"]
    /\ UNCHANGED <<sql_ddl_code, ordered_tables, ready_to_process, result>>

\* the seeding with one ordered list shared by all calls
SeedShared(c) ==
    /\ pc[c] = "seed"
    /\ \E q \in Orders({t \in AllTables(c) : InitiallyReady(dependencies[c], AllTables(c), t)}) :
          ready_to_process' = [ready_to_process EXCEPT ![c] = q]
    /\ ordered_tables' = [d \in Calls |-> <<>>]
    /\ pc' = [pc EXCEPT ![c] = "loop"]
    /\ UNCHANGED <<sql_ddl_code, table_map, dependencies, result>>

\* lines 153-159
Seed(c) ==
    /\ pc[c] = "seed"
    /\ \E q \in Orders({t \in AllTables(c) : InitiallyReady(dependencies[c], AllTables(c), t)}) :
          ready_to_process' = [ready_to_process EXCEPT ![c] = q]
    /\ ordered_tables' = [ordered_tables EXCEPT ![c] = <<>>]
    /\ pc' = [pc EXCEPT ![c] = "loop"]
    /\ UNCHANGED <<sql_ddl_code, table_map, dependencies, result>>

\* the scan that enqueues every table whose list is empty
RECURSIVE ScanRequeue(_, _, _)
ScanRequeue(scan, current_table, st) ==
    IF scan = <<>> THEN st
    ELSE LET dependent_table == Head(scan)
             hit == current_table \in Range(st.deps[dependent_table])
             d == IF hit THEN RemoveFirst(st.deps[dependent_table], current_table)
                  ELSE st.deps[dependent_table]
             enq == d = <<>> /\ dependent_table \notin Range(st.ready)
         IN ScanRequeue(Tail(scan), current_table,
                [deps |-> [st.deps EXCEPT ![dependent_table] = d],
                 ready |-> IF enq THEN Append(st.ready, dependent_table) ELSE st.ready])

\* the iteration that scans all tables, the ordered ones too, and enqueues
\* whatever has an empty list
PopRescanAll(c) ==
    /\ pc[c] = "loop"
    /\ ready_to_process[c] # <<>>
    /\ LET current_table == Head(ready_to_process[c])
           ordered == IF current_table \in Range(ordered_tables[c]) THEN ordered_tables[c]
                      ELSE Append(ordered_tables[c], current_table)
       IN /\ ordered_tables' = [ordered_tables EXCEPT ![c] = ordered]
          /\ \E scan \in Orders(AllTables(c)) :
                LET st == ScanRequeue(scan, current_table,
                             [deps |-> dependencies[c], ready |-> Tail(ready_to_process[c])])
                IN /\ dependencies' = [dependencies EXCEPT ![c] = st.deps]
                   /\ ready_to_process' = [ready_to_process EXCEPT ![c] = st.ready]
    /\ UNCHANGED <<sql_ddl_code, pc, table_map, result>>

\* lines 161-173: one iteration of the while loop
Pop(c) ==
    /\ pc[c] = "loop"
    /\ ready_to_process[c] # <<>>
    /\ LET current_table == Head(ready_to_process[c])
           ordered == IF current_table \in Range(ordered_tables[c]) THEN ordered_tables[c]
                      ELSE Append(ordered_tables[c], current_table)
       IN /\ ordered_tables' = [ordered_tables EXCEPT ![c] = ordered]
          /\ \E scan \in Orders(AllTables(c) \ Range(ordered)) :
                LET st == ScanDependents(scan, current_table,
                             [deps |-> dependencies[c], ready |-> Tail(ready_to_process[c])])
                IN /\ dependencies' = [dependencies EXCEPT ![c] = st.deps]
                   /\ ready_to_process' = [ready_to_process EXCEPT ![c] = st.ready]
    /\ UNCHANGED <<sql_ddl_code, pc, table_map, result>>

\* lines 177-180
AssembleWarning(c) ==
    /\ pc[c] = "loop"
    /\ ready_to_process[c] = <<>>
    /\ Len(ordered_tables[c]) # Cardinality(AllTables(c))
    /\ AllTables(c) \ Range(ordered_tables[c]) # {}
    /\ \E missing \in Orders(AllTables(c) \ Range(ordered_tables[c])) :
          result' = [result EXCEPT ![c] = WarningOutput(missing, sql_ddl_code[c])]
    /\ pc' = [pc EXCEPT ![c] = "done"]
    /\ UNCHANGED <<sql_ddl_code, table_map, dependencies, ordered_tables, ready_to_process>>

\* the reassembly without the count comparison of line 177
AssembleOrderedUnchecked(c) ==
    /\ pc[c] = "loop"
    /\ ready_to_process[c] = <<>>
    /\ result' = [result EXCEPT ![c] = OrderedOutput(ordered_tables[c], table_map[c])]
    /\ pc' = [pc EXCEPT ![c] = "done"]
    /\ UNCHANGED <<sql_ddl_code, table_map, dependencies, ordered_tables, ready_to_process>>

\* lines 177-192
AssembleOrdered(c) ==
    /\ pc[c] = "loop"
    /\ ready_to_process[c] = <<>>
    /\ ~(/\ Len(ordered_tables[c]) # Cardinality(AllTables(c))
         /\ AllTables(c) \ Range(ordered_tables[c]) # {})
    /\ result' = [result EXCEPT ![c] = OrderedOutput(ordered_tables[c], table_map[c])]
    /\ pc' = [pc EXCEPT ![c] = "done"]
    /\ UNCHANGED <<sql_ddl_code, table_map, dependencies, ordered_tables, ready_to_process>>

\* lines 161-173 run to the end from one state of the loop: the ordered
\* lists the loop can end with, over the orders the sets can be iterated in
RECURSIVE LoopOutcomes(_, _, _, _)
LoopOutcomes(all_tables, deps, ready, ordered) ==
    IF ready = <<>> THEN {ordered}
    ELSE LET current_table == Head(ready)
             next == IF current_table \in Range(ordered) THEN ordered
                     ELSE Append(ordered, current_table)
         IN UNION {LET st == ScanDependents(scan, current_table, [deps |-> deps, ready |-> Tail(ready)])
                   IN LoopOutcomes(all_tables, st.deps, st.ready, next) :
                      scan \in Orders(all_tables \ Range(next))}

\* lines 122-192: the texts one call can return for the input s when it runs
\* alone
AloneResults(s) ==
    IF ~ContainsCreateTable(s) THEN {s}
    ELSE LET tm == BuildTableMap(Statements(s), EmptyMap)
             deps == BuildDependencies(Statements(s), EmptyMap)
             all_tables == DOMAIN tm
             finals == UNION {LoopOutcomes(all_tables, deps, q, <<>>) :
                                 q \in Orders({t \in all_tables : InitiallyReady(deps, all_tables, t)})}
         IN UNION {IF Len(o) # Cardinality(all_tables) /\ all_tables \ Range(o) # {}
                   THEN {WarningOutput(m, s) : m \in Orders(all_tables \ Range(o))}
                   ELSE {OrderedOutput(o, tm)} : o \in finals}

(***************************************************************************)
(* The checked inputs.                                                     *)
(***************************************************************************)
\* the text of a CREATE TABLE statement of table t with one REFERENCES
\* clause per element of refs
StatementText(t, refs) ==
    <<"CREATE", " ", "TABLE", " ", t, " ", "(">>
        \o Join([i \in 1..Len(refs) |-> <<"REFERENCES", " ", refs[i], "(", ")">>], <<",">>)
        \o <<")">>

BatchText(b) == IF b = <<>> THEN <<>> ELSE Join(b, <<";", "\n">>) \o <<";">>

\* the batch whose i-th statement declares names[i]; its j-th reference
\* stands in statement owners[j] and points at targets[j]
GraphInput(names, owners, targets) ==
    BatchText([i \in 1..Len(names) |->
        LET at == SelectSeq([j \in 1..Len(owners) |-> j], LAMBDA j : owners[j] = i)
        IN StatementText(names[i], [m \in 1..Len(at) |-> targets[at[m]]])])

\* fragments that exercise the splitting and the two patterns
TextFragments ==
    { <<>>,
      <<" ">>,
      <<"SELECT", " ", "1">>,
      <<SuccessMarker>>,
      <<"REFERENCES", " ", "a", "(">>,
      <<"CREATE", " ", "TABLE", " ", "a">>,
      <<"CREATE", " ", "TABLE", "a", "(">>,
      <<"create", " ", "table", " ", "a", "(", ")">>,
      <<"CREATE", " ", "TABLE", " ", "a", "b", "(", ")">>,
      <<"CREATE", "\n", "TABLE", " ", "a", "(", ")">>,
      <<"CREATE", " ", "TABLE", " ", "b", " ", "(", "REFERENCES", " ", "a", "(", ")", " ",
        "REFERENCES", " ", "CREATE", " ", "TABLE", " ", "c", " ", "(", ")">>,
      <<"SELECT", " ", "1", "\n", "CREATE", " ", "TABLE", "\n", "a", "(", ")">>,
      <<"CREATE", " ", "TABLE", " ", "a", "(", "REFERENCES", " ", "b", "(", ")", ")">>,
      <<"CREATE", " ", "TABLE", " ", "a", "(", "REFERENCES", " ", "REFERENCES", " ", "b", "(", ")">>,
      <<"CREATE", " ", "TABLE", " ", "b", "(", "REFERENCES", " ", "a", ")">>,
      <<"CREATE", " ", "TABLE", " ", "b", "(", "REFERENCES", " ", "a">>,
      <<"CREATE", " ", "TABLE", " ", "\"", "b", "\"", " ", "(", "references", " ", "\"", "a", "\"", " ", ")">> }

TextInput(f, sep, tail) == Join(f, sep) \o tail

Separators == {<<";">>, <<";", " ">>, <<"\n", ";", "\n">>}
Endings == {<<>>, <<";">>, <<";", "\n">>}

\* the inputs of the second of two interleaved calls
ConcOther ==
    { <<"SELECT", " ", "1", ";">>,
      BatchText(<<StatementText("b", <<"a">>), StatementText("a", <<>>)>>),
      BatchText(<<StatementText("a", <<"b">>), StatementText("b", <<"a">>)>>),
      BatchText(<<StatementText("a", <<>>), StatementText("b", <<"a", "a">>)>>) }

Idle == [c \in Calls |-> <<>>]

\* one call of order_sql_commands
Init ==
    /\ \/ \E n \in 0..MaxStmts, k \in 0..MaxRefs :
             \E names \in [1..n -> {"a", "b", "c"}], owners \in [1..k -> 1..n],
                targets \in [1..k -> {"a", "b", "c", "x"}] :
                 /\ \A j \in 1..(k - 1) : owners[j] <= owners[j + 1]
                 /\ sql_ddl_code = [Idle EXCEPT ![1] = GraphInput(names, owners, targets)]
       \/ \E n \in 0..TextStmts :
             \E f \in [1..n -> TextFragments], sep \in Separators, tail \in Endings :
                 sql_ddl_code = [Idle EXCEPT ![1] = TextInput(f, sep, tail)]
    /\ pc = [c \in Calls |-> IF c = 1 THEN "start" ELSE "idle"]
    /\ table_map = [c \in Calls |-> EmptyMap]
    /\ dependencies = [c \in Calls |-> EmptyMap]
    /\ ordered_tables = Idle
    /\ ready_to_process = Idle
    /\ result = Idle

\* two calls of order_sql_commands, their steps interleaved
InitConcurrent ==
    /\ \E o \in ConcOther :
          \/ \E n \in 0..ConcStmts, k \in 0..ConcRefs :
                \E names \in [1..n -> {"a", "b"}], owners \in [1..k -> 1..n],
                   targets \in [1..k -> {"a", "b", "x"}] :
                    /\ \A j \in 1..(k - 1) : owners[j] <= owners[j + 1]
                    /\ sql_ddl_code = [Idle EXCEPT ![1] = GraphInput(names, owners, targets), ![2] = o]
          \/ sql_ddl_code = [Idle EXCEPT ![1] = <<"SELECT", " ", "1", ";">>, ![2] = o]
    /\ pc = [c \in Calls |-> "start"]
    /\ table_map = [c \in Calls |-> EmptyMap]
    /\ dependencies = [c \in Calls |-> EmptyMap]
    /\ ordered_tables = Idle
    /\ ready_to_process = Idle
    /\ result = Idle

Next ==
    \E c \in Calls :
        \/ PassThrough(c)
        \/ Parse(c)
        \/ Seed(c)
        \/ Pop(c)
        \/ AssembleWarning(c)
        \/ AssembleOrdered(c)

Spec == Init /\ [][Next]_vars

SpecConcurrent == InitConcurrent /\ [][Next]_vars

TypeOK ==
    \A c \in Calls :
        /\ pc[c] \in {"idle", "start", "seed", "loop", "done"}
        /\ DOMAIN dependencies[c] = DOMAIN table_map[c]
        /\ Range(ordered_tables[c]) \subseteq AllTables(c)
        /\ Range(ready_to_process[c]) \subseteq AllTables(c)

(***************************************************************************)
(* What the claims speak about, read off the input text and the returned   *)
(* text.                                                                   *)
(***************************************************************************)
Done(c) == pc[c] = "done"

\* the upper-cased text has no CREATE TABLE
NoCreateTable(s) ==
    \A i \in 1..(Len(s) - 2) :
        ~(s[i] \in CreateTokens /\ s[i + 1] = " " /\ s[i + 2] \in TableTokens)

\* the fragments of the input with a recognized header
Recognized(s) == {f \in Range(Statements(s)) : TableMatch(f) # <<>>}

\* the fragment that stands for table t: the last one declaring t
LastFragment(st, t) ==
    st[CHOOSE k \in 1..Len(st) :
          /\ TableMatch(st[k]) = t
          /\ \A j \in (k + 1)..Len(st) : TableMatch(st[j]) # t]

\* the extracted graph of an input: every recognized table with the list of
\* the names its statement references
Extracted(s) ==
    LET st == Statements(s)
    IN [t \in {TableMatch(st[i]) : i \in 1..Len(st)} \ {<<>>} |-> FkMatches(LastFragment(st, t))]

\* in the extracted graph g, A references B and both are recognized
Edge(g, A, B) == A \in DOMAIN g /\ B \in DOMAIN g /\ B \in Range(g[A])

\* the tables reached from the set F along references, in at most n steps
RECURSIVE Reach(_, _, _)
Reach(g, F, n) ==
    IF n = 0 THEN F
    ELSE Reach(g, F \cup {B \in DOMAIN g : \E A \in F : Edge(g, A, B)}, n - 1)

Successors(g, A) == {B \in DOMAIN g : Edge(g, A, B)}
OnCycle(g, A) == A \in Reach(g, Successors(g, A), Cardinality(DOMAIN g))
HasCycle(g) == \E A \in DOMAIN g : OnCycle(g, A)

\* the three forms of a returned text
SuccessForm(r) ==
    /\ r # <<>>
    /\ Head(r) = SuccessMarker
    /\ \/ Len(r) = 1
       \/ /\ Len(r) > 3
          /\ r[2] = "\n"
          /\ r[3] = "\n"
          /\ \A f \in Range(Statements(SubSeq(r, 4, Len(r)))) : TableMatch(f) # <<>>

WarningForm(r, s) ==
    /\ Len(r) >= Len(s) + 4
    /\ Head(r) = WarningHead
    /\ \E i \in 3..Len(r) :
          /\ r[i] = WarningTail
          /\ r[i + 1] = "\n"
          /\ SubSeq(r, i + 2, Len(r)) = s
          /\ \A k \in 2..(i - 1) : r[k] \in WordTokens \cup {", "}

\* the tables named by a warning line
RECURSIVE SplitNames(_)
SplitNames(q) ==
    LET P == {i \in 1..Len(q) : q[i] = ", "}
    IN IF P = {} THEN {q}
       ELSE {SubSeq(q, 1, Min(P) - 1)} \cup SplitNames(SubSeq(q, Min(P) + 1, Len(q)))

WarnedTables(r) ==
    LET i == Min({k \in 1..Len(r) : r[k] = WarningTail})
    IN SplitNames(SubSeq(r, 2, i - 1))

\* the tables of the statements of a success form, in the order of the text
EmittedTables(r) ==
    LET st == Statements(Tail(r))
    IN [i \in 1..Len(st) |-> TableMatch(st[i])]

Before(q, B, A) == \E i, j \in 1..Len(q) : i < j /\ q[i] = B /\ q[j] = A

\* C1: an input whose upper-cased text has no CREATE TABLE is returned as
\* it is, character for character.
C1_PassThrough ==
    \A c \in Calls :
        Done(c) /\ NoCreateTable(sql_ddl_code[c]) => result[c] = sql_ddl_code[c]

C1_Witness ==
    /\ Done(1)
    /\ NoCreateTable(sql_ddl_code[1])
    /\ \E i \in 1..Len(sql_ddl_code[1]) : sql_ddl_code[1][i] = ";"
    /\ \E i \in 1..Len(sql_ddl_code[1]) : sql_ddl_code[1][i] \in ReferencesTokens
    /\ Head(sql_ddl_code[1]) \in Whitespace

\* C2: in a success form, whenever recognized table A references recognized
\* table B, the statement of B stands strictly before the statement of A.
C2_OrderingCorrect ==
    \A c \in Calls :
        Done(c) /\ SuccessForm(result[c]) =>
            LET g == Extracted(sql_ddl_code[c])
                emitted == EmittedTables(result[c])
            IN \A A, B \in DOMAIN g : Edge(g, A, B) => Before(emitted, B, A)

\* a chain c -> b -> a that was written in the order c, b, a and came out
\* as a, b, c
C2_Witness ==
    /\ Done(1)
    /\ SuccessForm(result[1])
    /\ Len(Statements(sql_ddl_code[1])) = 3
    /\ [i \in 1..3 |-> TableMatch(Statements(sql_ddl_code[1])[i])] = << <<"c">>, <<"b">>, <<"a">> >>
    /\ Edge(Extracted(sql_ddl_code[1]), <<"c">>, <<"b">>)
    /\ Edge(Extracted(sql_ddl_code[1]), <<"b">>, <<"a">>)
    /\ EmittedTables(result[1]) = << <<"a">>, <<"b">>, <<"c">> >>

\* C3: when recognized tables reference each other in a cycle, the result is
\* the warning form: one warning line naming every table on a cycle,
\* followed by the input as it was; it is never a success form.
C3_CycleDetected ==
    \A c \in Calls :
        Done(c) /\ ~NoCreateTable(sql_ddl_code[c]) =>
            LET g == Extracted(sql_ddl_code[c])
            IN HasCycle(g) =>
                  /\ WarningForm(result[c], sql_ddl_code[c])
                  /\ ~SuccessForm(result[c])
                  /\ \A A \in DOMAIN g : OnCycle(g, A) => A \in WarnedTables(result[c])

\* two tables each referencing the other, and a third outside the cycle
C3_Witness ==
    /\ Done(1)
    /\ WarningForm(result[1], sql_ddl_code[1])
    /\ LET g == Extracted(sql_ddl_code[1])
       IN /\ Cardinality(DOMAIN g) = 3
          /\ \E A, B \in DOMAIN g :
                /\ A # B
                /\ Edge(g, A, B)
                /\ Edge(g, B, A)
                /\ WarnedTables(result[1]) = {A, B}

\* C5: in a success form the emitted tables are exactly the table names with
\* a recognized header, each emitted once.
C5_Complete ==
    \A c \in Calls :
        Done(c) /\ SuccessForm(result[c]) =>
            LET tables == DOMAIN Extracted(sql_ddl_code[c])
                emitted == EmittedTables(result[c])
            IN /\ Range(emitted) = tables
               /\ Len(emitted) = Cardinality(tables)

\* two tables emitted, one of them declared by two fragments
C5_Witness ==
    /\ Done(1)
    /\ SuccessForm(result[1])
    /\ Len(EmittedTables(result[1])) = 2
    /\ Cardinality(Recognized(sql_ddl_code[1])) = 3

HasDuplicates(q) == \E i, j \in 1..Len(q) : i # j /\ q[i] = q[j]

\* C4: a reference to a table that is not declared in the batch never
\* blocks: a table that references an absent table (and no table twice) is
\* ordered once all its in-batch references are ordered.
C4_AbsentNeverBlocks ==
    \A c \in Calls :
        Done(c) /\ ~NoCreateTable(sql_ddl_code[c]) =>
            LET g == Extracted(sql_ddl_code[c])
                ordered == Range(ordered_tables[c])
            IN \A t \in DOMAIN g :
                  /\ \E r \in Range(g[t]) : r \notin DOMAIN g
                  /\ ~HasDuplicates(g[t])
                  /\ Range(g[t]) \cap DOMAIN g \subseteq ordered
                  => t \in ordered

\* C6 as stated: no step of a call looks up a table that its maps do not
\* hold (the lookups of lines 158, 168 and 185 cannot raise), and the text
\* a call returns has exactly one of three forms: the input as it was, the
\* success marker with the ordered statements, or the warning line with the
\* input as it was; the two markers differ.
C6_ExactlyOneForm ==
    /\ SuccessMarker # WarningHead
    /\ \A c \in Calls :
          /\ DOMAIN dependencies[c] = DOMAIN table_map[c]
          /\ Range(ready_to_process[c]) \cup Range(ordered_tables[c]) \subseteq DOMAIN table_map[c]
          /\ Done(c) =>
                LET V == result[c] = sql_ddl_code[c]
                    S == SuccessForm(result[c])
                    W == WarningForm(result[c], sql_ddl_code[c])
                IN \/ V /\ ~S /\ ~W
                   \/ ~V /\ S /\ ~W
                   \/ ~V /\ ~S /\ W

\* C6 amended: no lookup can raise, the returned text has one of the three
\* forms, the success form and the warning form exclude each other and the
\* warning form excludes the verbatim form; the verbatim form excludes the
\* success form for every input that does not itself begin with the success
\* marker.
C6_TotalThreeForms ==
    /\ SuccessMarker # WarningHead
    /\ \A c \in Calls :
          /\ DOMAIN dependencies[c] = DOMAIN table_map[c]
          /\ Range(ready_to_process[c]) \cup Range(ordered_tables[c]) \subseteq DOMAIN table_map[c]
          /\ Done(c) =>
                LET V == result[c] = sql_ddl_code[c]
                    S == SuccessForm(result[c])
                    W == WarningForm(result[c], sql_ddl_code[c])
                IN /\ V \/ S \/ W
                   /\ ~(S /\ W)
                   /\ ~(V /\ W)
                   /\ V /\ S => /\ sql_ddl_code[c] # <<>>
                                /\ Head(sql_ddl_code[c]) = SuccessMarker

\* an input with CREATE TABLE of which no fragment has a recognized header,
\* answered by the marker alone
C6_Witness ==
    /\ Done(1)
    /\ ~NoCreateTable(sql_ddl_code[1])
    /\ Len(Statements(sql_ddl_code[1])) = 2
    /\ Recognized(sql_ddl_code[1]) = {}
    /\ result[1] = <<SuccessMarker>>

\* C7: the warning form is returned only for cycles: every table left
\* unordered lies on a cycle of references among recognized tables or
\* reaches one.
C7_WarningOnlyForCycles ==
    \A c \in Calls :
        Done(c) /\ WarningForm(result[c], sql_ddl_code[c]) =>
            LET g == Extracted(sql_ddl_code[c])
            IN \A t \in DOMAIN g \ Range(ordered_tables[c]) :
                  \E u \in Reach(g, {t}, Cardinality(DOMAIN g)) : OnCycle(g, u)

\* the statements of the tables q, each with its terminator, as line 190
\* and the final strip leave them
RECURSIVE Blocks(_)
Blocks(frags) ==
    IF frags = <<>> THEN <<>>
    ELSE IF Len(frags) = 1 THEN Head(frags) \o <<";">>
    ELSE Head(frags) \o <<";", "\n", "\n", "\n">> \o Blocks(Tail(frags))

\* what a success form contains: the marker, then the statements of the
\* emitted tables and nothing else
SuccessContent(c) ==
    LET st == Statements(sql_ddl_code[c])
        g == Extracted(sql_ddl_code[c])
        emitted == EmittedTables(result[c])
    IN /\ Range(emitted) \subseteq DOMAIN g
       /\ result[c] = IF emitted = <<>> THEN <<SuccessMarker>>
                      ELSE <<SuccessMarker, "\n", "\n">>
                              \o Blocks([i \in 1..Len(emitted) |-> LastFragment(st, emitted[i])])
       /\ DOMAIN g = {} => result[c] = <<SuccessMarker>>

\* C8 as stated: a success form is the marker followed by exactly the
\* statements of the ordered tables, and every terminator is followed by a
\* blank line.
C8_EveryTerminatorBlankLine ==
    \A c \in Calls :
        Done(c) /\ SuccessForm(result[c]) =>
            /\ SuccessContent(c)
            /\ \A i \in 1..Len(result[c]) :
                  result[c][i] = ";" =>
                      /\ i + 2 <= Len(result[c])
                      /\ result[c][i + 1] = "\n"
                      /\ result[c][i + 2] = "\n"

\* C8 amended: a success form is the marker followed by exactly the
\* statements of the ordered tables, each the trimmed text of the last
\* fragment declaring the table with its terminator; every terminator but
\* the last is followed by blank lines, and the last ends the text.
C8_Reassembly ==
    \A c \in Calls :
        Done(c) /\ SuccessForm(result[c]) =>
            /\ SuccessContent(c)
            /\ \A i \in 1..Len(result[c]) :
                  result[c][i] = ";" =>
                      \/ i = Len(result[c])
                      \/ /\ i + 2 <= Len(result[c])
                         /\ result[c][i + 1] = "\n"
                         /\ result[c][i + 2] = "\n"

\* a success form of one statement whose input also had a fragment without
\* a recognized header
C8_Witness ==
    /\ Done(1)
    /\ SuccessForm(result[1])
    /\ Len(EmittedTables(result[1])) = 1
    /\ \E f \in Range(Statements(sql_ddl_code[1])) : TableMatch(f) = <<>>
    /\ result[1][Len(result[1])] = ";"

\* C9: with the steps of two calls interleaved, the table map, dependency
\* lists, ready queue and ordered list of a call are its own, and each call
\* returns a text it can return when run alone on its input.
C9_NoInterference ==
    \A c \in Calls :
        /\ pc[c] = "start" =>
              /\ table_map[c] = EmptyMap
              /\ dependencies[c] = EmptyMap
              /\ ordered_tables[c] = <<>>
              /\ ready_to_process[c] = <<>>
        /\ Done(c) => result[c] \in AloneResults(sql_ddl_code[c])

\* the first call has returned two ordered statements while the second is
\* in the middle of its loop
C9_Witness ==
    /\ Done(1)
    /\ SuccessForm(result[1])
    /\ Len(EmittedTables(result[1])) = 2
    /\ pc[2] = "loop"
    /\ ordered_tables[2] # <<>>
    /\ ready_to_process[2] # <<>>

\* C10: repeated references to one recognized table are one dependency: a
\* table that references a recognized table more than once (and no absent
\* table) is ordered once the tables it references are ordered.
C10_RepeatedReferencesCollapse ==
    \A c \in Calls :
        Done(c) /\ ~NoCreateTable(sql_ddl_code[c]) =>
            LET g == Extracted(sql_ddl_code[c])
                ordered == Range(ordered_tables[c])
            IN \A t \in DOMAIN g :
                  /\ HasDuplicates(g[t])
                  /\ Range(g[t]) \subseteq DOMAIN g
                  /\ Range(g[t]) \subseteq ordered
                  => t \in ordered

\* the recognized table names in the order of their first statement: the
\* insertion order of the keys of table_map
RECURSIVE FirstOccurrences(_, _)
FirstOccurrences(q, seen) ==
    IF q = <<>> THEN <<>>
    ELSE IF Head(q) = <<>> \/ Head(q) \in seen THEN FirstOccurrences(Tail(q), seen)
    ELSE <<Head(q)>> \o FirstOccurrences(Tail(q), seen \cup {Head(q)})

InsertionOrder(s) ==
    LET st == Statements(s)
    IN FirstOccurrences([i \in 1..Len(st) |-> TableMatch(st[i])], {})

Position(q, e) == Min({i \in 1..Len(q) : q[i] = e})

\* C11: the ready queue is seeded with the initially-ready tables in the
\* order of their statements in the input, and tables with no reference
\* between them come out in input order.
C11_InputOrder ==
    \A c \in Calls :
        ~NoCreateTable(sql_ddl_code[c]) =>
            LET ins == InsertionOrder(sql_ddl_code[c])
                g == Extracted(sql_ddl_code[c])
            IN /\ pc[c] = "loop" /\ ordered_tables[c] = <<>> =>
                     \A i, j \in 1..Len(ready_to_process[c]) :
                         i < j => Position(ins, ready_to_process[c][i]) < Position(ins, ready_to_process[c][j])
               /\ /\ Done(c)
                  /\ SuccessForm(result[c])
                  /\ \A A, B \in DOMAIN g : ~Edge(g, A, B)
                  => EmittedTables(result[c]) = ins

\* C12: the ready-queue loop ends after at most T iterations for T
\* recognized tables: a queued table is never an ordered one and is queued
\* once, every iteration moves the head of the queue to the ordered list,
\* and the ordered list never holds more than T tables.
C12_LoopBounded ==
    [][\A c \in Calls :
          /\ pc'[c] = "loop" =>
                /\ Range(ready_to_process'[c]) \cap Range(ordered_tables'[c]) = {}
                /\ ~HasDuplicates(ready_to_process'[c])
                /\ Len(ordered_tables'[c]) + Len(ready_to_process'[c]) <= Cardinality(DOMAIN table_map'[c])
          /\ /\ pc[c] = "loop"
             /\ pc'[c] = "loop"
             /\ <<ready_to_process[c], ordered_tables[c], dependencies[c]>>
                   # <<ready_to_process'[c], ordered_tables'[c], dependencies'[c]>>
             => /\ ready_to_process[c] # <<>>
                /\ ordered_tables'[c] = Append(ordered_tables[c], Head(ready_to_process[c]))]_vars

\* the loop of a batch of three tables, two of them on a cycle, has ended
\* after one iteration
C12_Witness ==
    /\ Done(1)
    /\ WarningForm(result[1], sql_ddl_code[1])
    /\ Cardinality(DOMAIN table_map[1]) = 3
    /\ Len(ordered_tables[1]) = 1
    /\ ready_to_process[1] = <<>>
    /\ HasCycle(Extracted(sql_ddl_code[1]))

\* C13: a recognized table that references its own name is never queued and
\* never ordered, and the call returns the warning form naming it, followed
\* by the input as it was, also when no two distinct tables reference each
\* other.
C13_SelfReferenceFallsBack ==
    \A c \in Calls :
        pc[c] \in {"loop", "done"} /\ ~NoCreateTable(sql_ddl_code[c]) =>
            LET g == Extracted(sql_ddl_code[c])
            IN \A t \in DOMAIN g :
                  t \in Range(g[t]) =>
                      /\ t \notin Range(ready_to_process[c])
                      /\ t \notin Range(ordered_tables[c])
                      /\ Done(c) =>
                            /\ WarningForm(result[c], sql_ddl_code[c])
                            /\ t \in WarnedTables(result[c])

\* two tables, one referencing only itself, the other ordered; no
\* reference between distinct tables; the warning names the first alone
C13_Witness ==
    /\ Done(1)
    /\ WarningForm(result[1], sql_ddl_code[1])
    /\ LET g == Extracted(sql_ddl_code[1])
       IN /\ Cardinality(DOMAIN g) = 2
          /\ \A A, B \in DOMAIN g : A # B => ~Edge(g, A, B)
          /\ \E t \in DOMAIN g :
                /\ Range(g[t]) = {t}
                /\ WarnedTables(result[1]) = {t}
                /\ Len(ordered_tables[1]) = 1

====
